---- MODULE Spec2Model ----
(***************************************************************************)
(* Model of src/statistics/__init__.py: the noise injector (apply_noise),  *)
(* the label flipper (flip_labels), the divergence estimator               *)
(* (compute_divergence, _compute_kl_div) and the robustness aggregator     *)
(* (compute_robustness).                                                   *)
(*                                                                         *)
(* A table is a sequence of columns, each column a sequence of row values  *)
(* (pandas: data[feature] is a Series over the rows).  Real quantities of  *)
(* the noise injector are kept in halves (mu2 = 2*mu, a draw z2 = 2*z), so *)
(* that Python's round(), which rounds halves to even, is modelled on the  *)
(* exact ties as well.  The global generator np.random is one state `rng`  *)
(* that every draw advances and np.random.seed resets.                     *)
(***************************************************************************)
EXTENDS Integers, Sequences, FiniteSets, TLC

VARIABLES
    variant,   \* dataset_name of the table in `data`
    data,      \* the input table (never mutated: every operation works on data.copy())
    labels,    \* the label column of the input table
    rng,       \* state of the global generator np.random
    out,       \* record of the last apply_noise / flip_labels call
    div,       \* record of the last compute_divergence call
    rob        \* compute_robustness: position in its loops and what it read so far

vars == <<variant, data, labels, rng, out, div, rob>>

----------------------------------------------------------------------------
(* Bounds of the model *)

NRows == 2          \* rows of a table
MaxSeed == 1        \* seeds are 0..MaxSeed
RngMod == 8         \* number of states of the modelled generator
NumGroups == 2      \* macro-features of the splice-junction table (60 in the code)

Seeds == 0 .. MaxSeed
RngStates == 0 .. (RngMod - 1)
MuHalves == {0, 1}          \* mu = 0 and mu = 0.5
Sigmas == {0, 1}

BreastCancerName == "breast-cancer"
SpliceJunctionName == "splice-junction"
CensusIncomeName == "census-income"

----------------------------------------------------------------------------
(* The global generator *)

\* np.random.seed(seed): the state the seed is hashed to
SeedState(seed) == (seed + 1) % RngMod

\* one draw advances the generator
NextState(g) == (5 * g + 3) % RngMod

\* the standard normal draw of state g, in halves
Gauss2(g) == (g % 9) - 4

\* np.random.normal(mu, sigma) = mu + sigma * z, in halves
Normal2(g, mu2, sigma) == mu2 + sigma * Gauss2(g)

\* the raw uniform draw of state g: g / RngMod in [0, 1)
Uniform(g) == g

\* Python round() of v2 / 2: to the nearest integer, ties to even
Round2(v2) ==
    IF v2 % 2 = 0 THEN v2 \div 2
    ELSE LET f == (v2 - 1) \div 2
         IN IF f % 2 = 0 THEN f ELSE f + 1

RECURSIVE SeqMax(_)
SeqMax(s) ==
    IF Len(s) = 1 THEN s[1]
    ELSE LET m == SeqMax(Tail(s)) IN IF s[1] > m THEN s[1] ELSE m

RECURSIVE SeqMin(_)
SeqMin(s) ==
    IF Len(s) = 1 THEN s[1]
    ELSE LET m == SeqMin(Tail(s)) IN IF s[1] < m THEN s[1] ELSE m

\* series.apply(lambda j: hi if j > hi else j)
ClampAbove(col, hi) == [r \in DOMAIN col |-> IF col[r] > hi THEN hi ELSE col[r]]

\* series.apply(lambda j: lo if j < lo else j)
ClampBelow(col, lo) == [r \in DOMAIN col |-> IF col[r] < lo THEN lo ELSE col[r]]

\* series.apply(lambda j: round(j + np.random.normal(mu, sigma))): one draw per
\* row, in row order
RECURSIVE NoisyRound(_, _, _, _)
NoisyRound(col, g, mu2, sigma) ==
    IF col = <<>> THEN [col |-> <<>>, rng |-> g]
    ELSE LET rest == NoisyRound(Tail(col), NextState(g), mu2, sigma)
         IN [col |-> <<Round2(2 * Head(col) + Normal2(g, mu2, sigma))>> \o rest.col,
             rng |-> rest.rng]

\* (mutant: the clamp to the observed maximum is missing)
AddNoiseUnclampedAbove(col, g, mu2, sigma) ==
    LET minimum_value == SeqMin(col)
        noisy == NoisyRound(col, g, mu2, sigma)
    IN [col |-> ClampBelow(noisy.col, minimum_value), rng |-> noisy.rng]

\* _add_noise_to_ordinal_feature on one column: the observed maximum and
\* minimum are taken before the noise is added
AddNoiseToOrdinalFeature(col, g, mu2, sigma) ==
    LET maximum_value == SeqMax(col)
        minimum_value == SeqMin(col)
        noisy == NoisyRound(col, g, mu2, sigma)
    IN [col |-> ClampBelow(ClampAbove(noisy.col, maximum_value), minimum_value),
        rng |-> noisy.rng]

----------------------------------------------------------------------------
(* breast-cancer *)

\* (mutant: the call of np.random.seed is missing)
BreastCancerSeedMissing(g, seed) == g

\* the entry generator of _apply_noise_to_breast_cancer: np.random.seed(seed)
BreastCancerSeed(g, seed) == SeedState(seed)

\* for feature in data.columns: _add_noise_to_ordinal_feature(feature, ...)
RECURSIVE OrdinalColumns(_, _, _, _)
OrdinalColumns(cols, g, mu2, sigma) ==
    IF cols = <<>> THEN [table |-> <<>>, rng |-> g]
    ELSE LET first == AddNoiseToOrdinalFeature(Head(cols), g, mu2, sigma)
             rest == OrdinalColumns(Tail(cols), first.rng, mu2, sigma)
         IN [table |-> <<first.col>> \o rest.table, rng |-> rest.rng]

ApplyNoiseToBreastCancer(tbl, g, mu2, sigma, seed) ==
    OrdinalColumns(tbl, BreastCancerSeed(g, seed), mu2, sigma)

----------------------------------------------------------------------------
(* The constant-seed permutation *)

\* the shuffle behind np.random.choice(values, n, replace=False): for i from
\* n-1 down to 1, swap x[i] with x[j], j drawn from 0..i
RECURSIVE Shuffle(_, _, _)
Shuffle(x, i, g) ==
    IF i < 1 THEN [order |-> x, rng |-> g]
    ELSE LET j == Uniform(g) % (i + 1)
             y == [x EXCEPT ![i + 1] = x[j + 1], ![j + 1] = x[i + 1]]
         IN Shuffle(y, i - 1, NextState(g))

\* np.random.seed(0); np.random.choice(values, n, replace=False), as positions:
\* .order[v + 1] is the original position (from 0) of the value of rank v, and
\* .rng the generator the draw leaves behind
ConstantSeedChoice(n) == Shuffle([k \in 1 .. n |-> k - 1], n - 1, SeedState(0))
NewOrder(n) == ConstantSeedChoice(n).order

\* basis_mapping / new_mapping: the rank of original position k
NewMapping(order, k) == CHOOSE v \in 0 .. (Len(order) - 1) : order[v + 1] = k

\* (mutant: the rank is taken for the position, the inverse mapping is not applied)
InverseNewMappingForgotten(order, v) == v

\* inverse_new_mapping: the original position of rank v
InverseNewMapping(order, v) == order[v + 1]

----------------------------------------------------------------------------
(* splice-junction *)

\* np.random.seed(seed) after the basis order was drawn
SpliceJunctionSeed(g, seed) == SeedState(seed)

\* (mutant: the two clamps are missing)
SymbolClampMissing(v) == v

\* new_values.apply(lambda k: 3 if k > 3 else k), then 0 if k < 0 else k
SymbolClamp(v) ==
    LET hi == IF v > 3 THEN 3 ELSE v
    IN IF hi < 0 THEN 0 ELSE hi

\* (mutant: every cell is taken for active)
IsActiveAlways(k) == TRUE

\* the test k == 1 of a cell
IsActive(k) == k = 1

\* A cell of new_values is a set: {} is np.nan, {v} the value v.
\* data_copy[feature].apply(lambda k: round(rank + normal) if k == 1 else nan),
\* then the two clamps to [0, 3]; a draw is taken for the active rows only
RECURSIVE SymbolColumn(_, _, _, _, _)
SymbolColumn(col, rank, g, mu2, sigma) ==
    IF col = <<>> THEN [col |-> <<>>, rng |-> g]
    ELSE IF IsActive(Head(col))
    THEN LET rest == SymbolColumn(Tail(col), rank, NextState(g), mu2, sigma)
             v == Round2(2 * rank + Normal2(g, mu2, sigma))
         IN [col |-> <<{SymbolClamp(v)}>> \o rest.col, rng |-> rest.rng]
    ELSE LET rest == SymbolColumn(Tail(col), rank, g, mu2, sigma)
         IN [col |-> <<{}>> \o rest.col, rng |-> rest.rng]

\* new_values_i: the four columns of one macro-feature, j = 0..3 in order
RECURSIVE SymbolColumns(_, _, _, _, _, _)
SymbolColumns(cols, j, order, g, mu2, sigma) ==
    IF cols = <<>> THEN [cols |-> <<>>, rng |-> g]
    ELSE LET first == SymbolColumn(Head(cols), NewMapping(order, j), g, mu2, sigma)
             rest == SymbolColumns(Tail(cols), j + 1, order, first.rng, mu2, sigma)
         IN [cols |-> <<first.col>> \o rest.cols, rng |-> rest.rng]

\* data_copy[feature] = new_values_i.apply(lambda k: 1 if rank(j) in list(k) else 0, axis=1)
GroupOutput(new_values, order) ==
    [jj \in 1 .. 4 |->
        [r \in DOMAIN new_values[jj] |->
            IF NewMapping(order, jj - 1) \in UNION {new_values[c][r] : c \in 1 .. 4}
            THEN 1 ELSE 0]]

\* for i in range(0, 60): the macro-features in order, four columns each
RECURSIVE SpliceGroups(_, _, _, _, _)
SpliceGroups(cols, order, g, mu2, sigma) ==
    IF cols = <<>> THEN [table |-> <<>>, rng |-> g]
    ELSE LET new_values == SymbolColumns(SubSeq(cols, 1, 4), 0, order, g, mu2, sigma)
             rest == SpliceGroups(SubSeq(cols, 5, Len(cols)), order, new_values.rng, mu2, sigma)
         IN [table |-> GroupOutput(new_values.cols, order) \o rest.table, rng |-> rest.rng]

\* np.random.seed(0); basis_order = np.random.choice(['a', 'c', 'g', 't'], 4, replace=False)
BasisOrder == NewOrder(4)

ApplyNoiseToSpliceJunction(tbl, g, mu2, sigma, seed) ==
    SpliceGroups(tbl, BasisOrder, SpliceJunctionSeed(ConstantSeedChoice(4).rng, seed),
                 mu2, sigma)

----------------------------------------------------------------------------
(* census-income *)

\* The schema of the table: the feature each column belongs to (a column of a
\* nominal block is named <feature>_<value>, so it starts with the feature).
CIColumns == <<"Age", "HoursPerWeek", "Sex", "EducationNumeric",
               "WorkClass", "WorkClass", "WorkClass">>
IntegerFeatures == <<"Age", "HoursPerWeek">>
BinaryFeatures == <<"Sex">>
OrdinalFeatures == <<"EducationNumeric">>
NominalFeatures == <<"WorkClass">>

ColumnOf(feature) == CHOOSE c \in DOMAIN CIColumns : CIColumns[c] = feature

\* the entry generator of _apply_noise_to_census_income: np.random.seed(seed)
CensusIncomeSeed(g, seed) == SeedState(seed)

\* np.random.seed(seed) inside the loop over the nominal features
CensusNominalSeed(g, seed) == SeedState(seed)

IntegerClamp(feature, col) ==
    IF feature = "Age" THEN ClampBelow(col, 0)
    ELSE IF feature = "HoursPerWeek" THEN ClampAbove(ClampBelow(col, 0), 99)
    ELSE col

RECURSIVE IntegerLoop(_, _, _, _, _)
IntegerLoop(features, tbl, g, mu2, sigma) ==
    IF features = <<>> THEN [table |-> tbl, rng |-> g]
    ELSE LET c == ColumnOf(Head(features))
             noisy == NoisyRound(tbl[c], g, mu2, sigma)
         IN IntegerLoop(Tail(features),
                        [tbl EXCEPT ![c] = IntegerClamp(Head(features), noisy.col)],
                        noisy.rng, mu2, sigma)

\* the two clamps of a binary feature
BinaryClamp(col) == ClampBelow(ClampAbove(col, 1), 0)

RECURSIVE BinaryLoop(_, _, _, _, _)
BinaryLoop(features, tbl, g, mu2, sigma) ==
    IF features = <<>> THEN [table |-> tbl, rng |-> g]
    ELSE LET c == ColumnOf(Head(features))
             noisy == NoisyRound(tbl[c], g, mu2, sigma)
         IN BinaryLoop(Tail(features), [tbl EXCEPT ![c] = BinaryClamp(noisy.col)],
                       noisy.rng, mu2, sigma)

RECURSIVE OrdinalLoop(_, _, _, _, _)
OrdinalLoop(features, tbl, g, mu2, sigma) ==
    IF features = <<>> THEN [table |-> tbl, rng |-> g]
    ELSE LET c == ColumnOf(Head(features))
             noisy == AddNoiseToOrdinalFeature(tbl[c], g, mu2, sigma)
         IN OrdinalLoop(Tail(features), [tbl EXCEPT ![c] = noisy.col],
                        noisy.rng, mu2, sigma)

\* values = [f for f in data_copy.columns if f.startswith(nominal_feature)]
RECURSIVE BlockColumns(_, _)
BlockColumns(feature, c) ==
    IF c > Len(CIColumns) THEN <<>>
    ELSE (IF CIColumns[c] = feature THEN <<c>> ELSE <<>>) \o BlockColumns(feature, c + 1)

\* np.argmax: the first position (from 0) holding the maximum
ArgMax(s) ==
    CHOOSE k \in 0 .. (Len(s) - 1) :
        /\ s[k + 1] = SeqMax(s)
        /\ \A k2 \in 0 .. (k - 1) : s[k2 + 1] < s[k + 1]

\* indices.apply(lambda j: round(new_mapping[original_mapping[j]] + normal))
RECURSIVE NoisyRank(_, _, _, _, _)
NoisyRank(indices, order, g, mu2, sigma) ==
    IF indices = <<>> THEN [col |-> <<>>, rng |-> g]
    ELSE LET rest == NoisyRank(Tail(indices), order, NextState(g), mu2, sigma)
             v == Round2(2 * NewMapping(order, Head(indices)) + Normal2(g, mu2, sigma))
         IN [col |-> <<v>> \o rest.col, rng |-> rest.rng]

\* one nominal feature: the block is rebuilt with exactly the column of the
\* noisy, clamped rank active
NominalBlock(feature, tbl, g, mu2, sigma, seed) ==
    LET values == BlockColumns(feature, 1)
        n == Len(values)
        order == NewOrder(n)
        indices == [r \in 1 .. Len(tbl[values[1]]) |->
                       ArgMax([k \in 1 .. n |-> tbl[values[k]][r]])]
        noisy == NoisyRank(indices, order,
                           CensusNominalSeed(ConstantSeedChoice(n).rng, seed), mu2, sigma)
        clamped == ClampBelow(ClampAbove(noisy.col, n - 1), 0)
    IN [table |->
            [c \in DOMAIN tbl |->
                IF \E k \in 1 .. n : values[k] = c
                THEN LET k == CHOOSE k \in 1 .. n : values[k] = c
                     IN [r \in DOMAIN clamped |->
                            IF InverseNewMapping(order, clamped[r]) = k - 1 THEN 1 ELSE 0]
                ELSE tbl[c]],
        rng |-> noisy.rng]

RECURSIVE NominalLoop(_, _, _, _, _, _)
NominalLoop(features, tbl, g, mu2, sigma, seed) ==
    IF features = <<>> THEN [table |-> tbl, rng |-> g]
    ELSE LET block == NominalBlock(Head(features), tbl, g, mu2, sigma, seed)
         IN NominalLoop(Tail(features), block.table, block.rng, mu2, sigma, seed)

ApplyNoiseToCensusIncome(tbl, g, mu2, sigma, seed) ==
    LET ints == IntegerLoop(IntegerFeatures, tbl, CensusIncomeSeed(g, seed), mu2, sigma)
        bins == BinaryLoop(BinaryFeatures, ints.table, ints.rng, mu2, sigma)
        ords == OrdinalLoop(OrdinalFeatures, bins.table, bins.rng, mu2, sigma)
    IN NominalLoop(NominalFeatures, ords.table, ords.rng, mu2, sigma, seed)

\* apply_noise: dispatch on the dataset name
ApplyNoiseFn(name, tbl, g, mu2, sigma, seed) ==
    IF name = BreastCancerName THEN ApplyNoiseToBreastCancer(tbl, g, mu2, sigma, seed)
    ELSE IF name = SpliceJunctionName THEN ApplyNoiseToSpliceJunction(tbl, g, mu2, sigma, seed)
    ELSE ApplyNoiseToCensusIncome(tbl, g, mu2, sigma, seed)

----------------------------------------------------------------------------
(* flip_labels *)

LabelValues == {0, 1, 2}
\* label_flip_p as a fraction <<numerator, denominator>>: 0, 1/2, 1
FlipProbs == {<<0, 1>>, <<1, 2>>, <<1, 1>>}

\* label_name, by dataset name
LabelName(name) ==
    IF name = BreastCancerName THEN "diagnosis"
    ELSE IF name = SpliceJunctionName THEN "class"
    ELSE "income"

LabelSet(col) == {col[r] : r \in DOMAIN col}

\* a set of labels as a list, in ascending order
RECURSIVE SetToList(_)
SetToList(S) ==
    IF S = {} THEN <<>>
    ELSE LET m == CHOOSE x \in S : \A y \in S : x <= y
         IN <<m>> \o SetToList(S \ {m})

\* possible_labels = list(set(data_copy[label_name].tolist()))
PossibleLabels(col) == SetToList(LabelSet(col))

\* (mutant: the current label is not excluded)
OtherLabelsAll(possible_labels, label) == possible_labels

\* [lab for lab in possible_labels if lab != label]
OtherLabels(possible_labels, label) == SelectSeq(possible_labels, LAMBDA lab : lab # label)

\* np.random.choice([1, 0], p=[p, 1 - p]) == 1: the uniform draw lies below p
Heads(g, p) == Uniform(g) * p[2] < p[1] * RngMod

\* data_copy[label_name].apply(lambda j: random_flip(j, p)): per row a coin
\* and, on heads, a second draw choosing among the other labels; choosing
\* from an empty list raises ValueError and the call returns nothing
RECURSIVE FlipRows(_, _, _, _)
FlipRows(col, possible_labels, g, p) ==
    IF col = <<>> THEN [labels |-> <<>>, coins |-> <<>>, rng |-> g, err |-> "none"]
    ELSE IF Heads(g, p)
    THEN LET others == OtherLabels(possible_labels, Head(col))
             g1 == NextState(g)
         IN IF others = <<>>
            THEN [labels |-> <<>>, coins |-> <<>>, rng |-> g1, err |-> "ValueError"]
            ELSE LET rest == FlipRows(Tail(col), possible_labels, NextState(g1), p)
                     new == others[(Uniform(g1) % Len(others)) + 1]
                 IN IF rest.err # "none" THEN rest
                    ELSE [labels |-> <<new>> \o rest.labels,
                          coins |-> <<TRUE>> \o rest.coins,
                          rng |-> rest.rng, err |-> "none"]
    ELSE LET rest == FlipRows(Tail(col), possible_labels, NextState(g), p)
         IN IF rest.err # "none" THEN rest
            ELSE [labels |-> <<Head(col)>> \o rest.labels,
                  coins |-> <<FALSE>> \o rest.coins,
                  rng |-> rest.rng, err |-> "none"]

FlipLabelsFn(col, g, p, seed) == FlipRows(col, PossibleLabels(col), SeedState(seed), p)

----------------------------------------------------------------------------
(* compute_divergence *)

KLLimit == 10000000
KLSentinel == 10000

\* What the closed-form expression of _compute_kl_div can evaluate to: a float
\* is not-a-number, an infinity or a number; "raise" is an exception of the
\* linear algebra (pinv of a matrix it cannot decompose).
RawKL ==
    {[kind |-> "nan", val |-> 0], [kind |-> "inf", val |-> 0], [kind |-> "-inf", val |-> 0],
     [kind |-> "raise", val |-> 0]}
    \cup {[kind |-> "num", val |-> v] : v \in {0 - KLLimit - 1, -3, 7, KLLimit, KLLimit + 1}}

\* (mutant: the clamp of a negative value to 0 is missing)
KLGuardNoClamp(raw) ==
    IF raw.kind = "nan" \/ raw.kind = "inf" \/ raw.kind = "-inf" THEN KLSentinel
    ELSE IF raw.val > KLLimit \/ 0 - raw.val > KLLimit THEN KLSentinel
    ELSE raw.val

\* the two guards at the end of _compute_kl_div
KLGuard(raw) ==
    LET guarded ==
            IF raw.kind = "nan" \/ raw.kind = "inf" \/ raw.kind = "-inf" THEN KLSentinel
            ELSE IF raw.val > KLLimit \/ 0 - raw.val > KLLimit THEN KLSentinel
            ELSE raw.val
    IN IF guarded < 0 THEN 0 ELSE guarded

Count(col, label) == Cardinality({r \in DOMAIN col : col[r] = label})

RECURSIVE WeightedSum(_, _, _)
WeightedSum(labs, kls, col) ==
    IF labs = {} THEN 0
    ELSE LET l == CHOOSE x \in labs : TRUE
         IN kls[l] * Count(col, l) + WeightedSum(labs \ {l}, kls, col)

\* The reversal of the perturbed table before the label check: reverse_multi_hot
\* reads data['class'] itself, reverse_one_hot does not touch the label.
ReversePerturbed(label_col, pert_has_label) ==
    IF label_col = "class" /\ ~pert_has_label THEN "KeyError" ELSE "none"

\* compute_divergence(original, perturbed): orig and pert are the two label
\* columns, raws the raw KL value of every class
ComputeDivergenceFn(label_col, orig, pert_has_label, pert, raws) ==
    LET base == [label_col |-> label_col, orig |-> orig, pert_has_label |-> pert_has_label,
                 pert |-> pert, raws |-> raws, kls |-> <<>>, num |-> 0, den |-> 0]
        fail(e) == [base EXCEPT !.raws = <<>>] @@ [err |-> e]
        labs == LabelSet(orig)
        kls == [l \in labs |-> KLGuard(raws[l])]
    IN IF ReversePerturbed(label_col, pert_has_label) # "none"
       THEN fail(ReversePerturbed(label_col, pert_has_label))
       ELSE IF ~pert_has_label THEN fail("ValueError")
       ELSE IF labs # LabelSet(pert) THEN fail("AssertionError")
       ELSE IF \E l \in labs : raws[l].kind = "raise" THEN fail("LinAlgError")
       ELSE [base EXCEPT !.kls = kls, !.num = WeightedSum(labs, kls, orig),
                         !.den = Len(orig)] @@ [err |-> "none"]

----------------------------------------------------------------------------
(* compute_robustness *)

Models == <<"uneducated", "kins", "kill", "kbann">>
Perturbations == {"noise", "label_flip", "drop"}

\* n = 10 if perturbation in ['noise', 'label_flip'] else 20
IterationCount(perturbation) ==
    IF perturbation \in {"noise", "label_flip"} THEN 10 ELSE 20

\* the first i of: range(n) if perturbation == 'noise' else range(1, n)
FirstIteration(perturbation) == IF perturbation = "noise" THEN 0 ELSE 1

IdleRob == [pc |-> "idle"]

\* entry of compute_robustness, at the first model
RobStart(perturbation) ==
    /\ rob.pc \in {"idle", "done"}
    /\ rob' = [pc |-> "loop", perturbation |-> perturbation,
               n |-> IterationCount(perturbation), model |-> 1,
               i |-> FirstIteration(perturbation), files |-> <<>>, absolute |-> <<>>]
    /\ UNCHANGED <<variant, data, labels, rng, out, div>>

\* one pass of the inner loop: the files '<i + 1>.csv' are read and one
\* divergence and one quality are appended
RobRead ==
    /\ rob.pc = "loop"
    /\ rob.i < rob.n
    /\ rob' = [rob EXCEPT !.files = Append(@, rob.i + 1), !.i = @ + 1]
    /\ UNCHANGED <<variant, data, labels, rng, out, div>>

\* robustness_dict[model + ' absolute'] = sum(divergences / (pi1 / pi2)) / n:
\* one term per file read, divided by n; then the next model
RobAbsolute ==
    /\ rob.pc = "loop"
    /\ rob.i >= rob.n
    /\ LET entry == [model |-> Models[rob.model], terms |-> Len(rob.files),
                     divisor |-> rob.n, files |-> rob.files]
       IN rob' = IF rob.model < Len(Models)
                 THEN [rob EXCEPT !.absolute = Append(@, entry), !.model = @ + 1,
                                  !.i = FirstIteration(rob.perturbation), !.files = <<>>]
                 ELSE [rob EXCEPT !.absolute = Append(@, entry), !.pc = "relative"]
    /\ UNCHANGED <<variant, data, labels, rng, out, div>>

\* the second loop (the relative scores) and the return
RobReturn ==
    /\ rob.pc = "relative"
    /\ rob' = [rob EXCEPT !.pc = "done"]
    /\ UNCHANGED <<variant, data, labels, rng, out, div>>

----------------------------------------------------------------------------
(* Tables *)

Names == {BreastCancerName, SpliceJunctionName, CensusIncomeName}

OrdinalValues == {0, 2}
BreastCancerTables == [1 .. 2 -> [1 .. NRows -> OrdinalValues]]

\* splice-junction: the first macro-feature of every row ranges over
\* GroupPatterns (one symbol, none, several); the others hold one valid symbol
GroupPatterns ==
    {<<1, 0, 0, 0>>, <<0, 1, 0, 0>>, <<0, 0, 1, 0>>, <<0, 0, 0, 1>>,
     <<0, 0, 0, 0>>, <<1, 1, 0, 1>>}
SpliceJunctionTable(first) ==
    [c \in 1 .. (4 * NumGroups) |->
        LET i == (c - 1) \div 4
            j == (c - 1) % 4
        IN [r \in 1 .. NRows |->
               IF i = 0 THEN first[r][j + 1]
               ELSE IF j = (i + r) % 4 THEN 1 ELSE 0]]
SpliceJunctionTables ==
    {SpliceJunctionTable(first) : first \in [1 .. NRows -> GroupPatterns]}

\* census-income: columns in the order of CIColumns.  Every column takes one
\* draw per row whatever it holds, so a column's output depends on that column
\* alone; the rows below give every column each pair of its values.
CensusRows ==
    {<<1, 98, 0, 1, 1, 0, 0>>, <<1, 98, 1, 3, 0, 1, 0>>, <<1, 98, 0, 3, 0, 0, 1>>,
     <<1, 98, 1, 1, 0, 0, 0>>, <<1, 98, 0, 1, 1, 1, 0>>}
CensusIncomeTables ==
    {[c \in DOMAIN CIColumns |-> [r \in 1 .. NRows |-> rows[r][c]]] :
        rows \in [1 .. NRows -> CensusRows]}

Tables(name) ==
    IF name = BreastCancerName THEN BreastCancerTables
    ELSE IF name = SpliceJunctionName THEN SpliceJunctionTables
    ELSE CensusIncomeTables

DefaultTable(name) == CHOOSE t \in Tables(name) : TRUE
DefaultLabels == [r \in 1 .. NRows |-> r % 2]
LabelColumns == [1 .. NRows -> LabelValues]

IdleOut == [op |-> "none"]
IdleDiv == [err |-> "not called"]

----------------------------------------------------------------------------
(* Operations *)

\* apply_noise(data, mu, sigma, dataset_name, seed)
ApplyNoise(mu2, sigma, seed) ==
    LET res == ApplyNoiseFn(variant, data, rng, mu2, sigma, seed)
    IN /\ out' = [op |-> "apply_noise", mu2 |-> mu2, sigma |-> sigma, seed |-> seed,
                  reseeded |-> (rng # SeedState(seed)), table |-> res.table]
       /\ rng' = res.rng
       /\ div' = IdleDiv
       /\ UNCHANGED <<variant, data, labels, rob>>

\* flip_labels(data, label_flip_p, dataset_name, seed)
FlipLabels(p, seed) ==
    LET res == FlipLabelsFn(labels, rng, p, seed)
    IN /\ out' = [op |-> "flip_labels", p |-> p, seed |-> seed,
                  labels |-> res.labels, coins |-> res.coins, err |-> res.err]
       /\ rng' = res.rng
       /\ div' = IdleDiv
       /\ UNCHANGED <<variant, data, labels, rob>>

\* compute_divergence(original, flip_labels(original, ...))
\* (the raw KL values are a function of the two tables: one choice per call pair)
DivergenceOfFlip ==
    /\ div = IdleDiv
    /\ out.op = "flip_labels"
    /\ out.err = "none"
    /\ \E raws \in [LabelSet(labels) -> RawKL] :
           div' = ComputeDivergenceFn(LabelName(variant), labels, TRUE, out.labels, raws)
    /\ UNCHANGED <<variant, data, labels, rng, out, rob>>

\* compute_divergence(original, perturbed) on any perturbed table with the
\* same rows, holding the label column or not
ComputeDivergence ==
    /\ div = IdleDiv
    /\ \E pert_has_label \in BOOLEAN, pert \in LabelColumns,
          raws \in [LabelSet(labels) -> RawKL] :
           div' = ComputeDivergenceFn(LabelName(variant), labels, pert_has_label, pert, raws)
    /\ UNCHANGED <<variant, data, labels, rng, out, rob>>

----------------------------------------------------------------------------
(* Specifications *)

InitNoise ==
    /\ variant \in Names
    /\ data \in Tables(variant)
    /\ labels = DefaultLabels
    /\ rng \in RngStates
    /\ out = IdleOut
    /\ div = IdleDiv
    /\ rob = IdleRob

NextNoise ==
    \/ \E mu2 \in MuHalves, sigma \in Sigmas, seed \in Seeds : ApplyNoise(mu2, sigma, seed)
    \/ \E p \in FlipProbs, seed \in Seeds : FlipLabels(p, seed)

SpecNoise == InitNoise /\ [][NextNoise]_vars

InitFlip ==
    /\ variant \in Names
    /\ data = DefaultTable(variant)
    /\ labels \in LabelColumns
    /\ rng \in RngStates
    /\ out = IdleOut
    /\ div = IdleDiv
    /\ rob = IdleRob

NextFlip ==
    \/ \E p \in FlipProbs, seed \in Seeds : FlipLabels(p, seed)
    \/ DivergenceOfFlip

SpecFlip == InitFlip /\ [][NextFlip]_vars

InitDiv ==
    /\ variant \in Names
    /\ data = DefaultTable(variant)
    /\ labels \in LabelColumns
    /\ rng = 0
    /\ out = IdleOut
    /\ div = IdleDiv
    /\ rob = IdleRob

NextDiv == ComputeDivergence

SpecDiv == InitDiv /\ [][NextDiv]_vars

InitRob ==
    /\ variant = BreastCancerName
    /\ data = DefaultTable(variant)
    /\ labels = DefaultLabels
    /\ rng = 0
    /\ out = IdleOut
    /\ div = IdleDiv
    /\ rob = IdleRob

NextRob ==
    \/ \E perturbation \in Perturbations : RobStart(perturbation)
    \/ RobRead
    \/ RobAbsolute
    \/ RobReturn

SpecRob == InitRob /\ [][NextRob]_vars

Init == InitNoise
Next == NextNoise
Spec == SpecNoise

----------------------------------------------------------------------------
(* Properties *)

NoiseReturned == out.op = "apply_noise"
FlipReturned == out.op = "flip_labels" /\ out.err = "none"
DivergenceReturned == div.err = "none"

Rows == 1 .. NRows

\* the columns of every encoded block of the table: the 4-column groups of
\* splice-junction, the one-hot blocks of the nominal features of census-income
Blocks ==
    IF variant = SpliceJunctionName
    THEN {{4 * i + j : j \in 1 .. 4} : i \in 0 .. ((Len(data) \div 4) - 1)}
    ELSE IF variant = CensusIncomeName
    THEN {{c \in DOMAIN CIColumns : CIColumns[c] = NominalFeatures[f]} :
             f \in DOMAIN NominalFeatures}
    ELSE {}

ActiveCount(tbl, block, r) == Cardinality({c \in block : tbl[c][r] = 1})

\* the perturbed ordinal columns: all of breast-cancer, ordinal_features of census-income
OrdinalColumnSet ==
    IF variant = BreastCancerName THEN DOMAIN data
    ELSE IF variant = CensusIncomeName
    THEN {ColumnOf(OrdinalFeatures[f]) : f \in DOMAIN OrdinalFeatures}
    ELSE {}

\* the perturbed binary columns: binary_features of census-income
BinaryColumnSet ==
    IF variant = CensusIncomeName
    THEN {ColumnOf(BinaryFeatures[f]) : f \in DOMAIN BinaryFeatures}
    ELSE {}

InObservedRange(c) ==
    \A r \in Rows :
        /\ out.table[c][r] \in Int
        /\ out.table[c][r] >= SeqMin(data[c])
        /\ out.table[c][r] <= SeqMax(data[c])

\* C1: two calls of apply_noise with the same data, mu, sigma and seed return the
\* same table: the table a call returned is the table the call returns from
\* every state the global generator can be in.
C1_Determinism ==
    NoiseReturned =>
        \A g \in RngStates :
            ApplyNoiseFn(variant, data, g, out.mu2, out.sigma, out.seed).table = out.table

\* a call made on a generator that was not in the seed's state, with real noise
C1_Witness ==
    /\ NoiseReturned
    /\ out.reseeded
    /\ out.sigma = 1
    /\ out.table # data

\* C2 as claimed: every perturbed ordinal and binary column stays within the
\* [min, max] the column had in the input.
C2_ObservedRange ==
    NoiseReturned => \A c \in OrdinalColumnSet \cup BinaryColumnSet : InObservedRange(c)

\* C2 amended: every perturbed ordinal column stays within the [min, max] the
\* column had in the input; every perturbed binary column is an integer in
\* [0, 1], which is the observed range only when the input column holds both.
C2_Domain ==
    NoiseReturned =>
        /\ \A c \in OrdinalColumnSet : InObservedRange(c)
        /\ \A c \in BinaryColumnSet :
              /\ \A r \in Rows : out.table[c][r] \in {0, 1}
              /\ LabelSet(data[c]) = {0, 1} => InObservedRange(c)

\* noise moved an ordinal value inside its range and changed a binary value
C2_Witness ==
    /\ NoiseReturned
    /\ variant = CensusIncomeName
    /\ \E c \in OrdinalColumnSet : \E r \in Rows :
          /\ out.table[c][r] # data[c][r]
          /\ out.table[c][r] > SeqMin(data[c])
          /\ out.table[c][r] < SeqMax(data[c])
    /\ \E c \in BinaryColumnSet : \E r \in Rows : out.table[c][r] # data[c][r]

InputBlocksValid == \A b \in Blocks : \A r \in Rows : ActiveCount(data, b, r) = 1

\* C3: if every block of the input has exactly one active column in every row,
\* every block of the output has exactly one active column in every row.
C3_BlockValidity ==
    (NoiseReturned /\ InputBlocksValid) =>
        \A b \in Blocks : \A r \in Rows : ActiveCount(out.table, b, r) = 1

\* a valid splice-junction table whose active columns the noise moved
C3_Witness ==
    /\ NoiseReturned
    /\ variant = SpliceJunctionName
    /\ InputBlocksValid
    /\ out.table # data

\* C4: with mu = 0 and sigma = 0, every row of a block that has exactly one
\* active column keeps that block unchanged.
C4_NoOpIdentity ==
    (NoiseReturned /\ out.mu2 = 0 /\ out.sigma = 0) =>
        \A b \in Blocks : \A r \in Rows :
            ActiveCount(data, b, r) = 1 => \A c \in b : out.table[c][r] = data[c][r]

\* a no-op call on a census-income row whose active column the constant-seed
\* permutation sends to another rank
C4_Witness ==
    /\ NoiseReturned
    /\ out.mu2 = 0
    /\ out.sigma = 0
    /\ variant = CensusIncomeName
    /\ \E b \in Blocks : \E r \in Rows : \E k \in 0 .. 2 :
          /\ ActiveCount(data, b, r) = 1
          /\ data[BlockColumns(NominalFeatures[1], 1)[k + 1]][r] = 1
          /\ NewMapping(NewOrder(3), k) # k

\* C9 as claimed: every group of every row of the splice-junction output has at
\* most one active column, whatever the input group held.
C9_AtMostOne ==
    (NoiseReturned /\ variant = SpliceJunctionName) =>
        \A b \in Blocks : \A r \in Rows : ActiveCount(out.table, b, r) <= 1

\* C9 amended: a group of the output has at most as many active columns as the
\* input group had, and at least one if the input group had any; so at most one
\* where the input had at most one, and fewer where noisy values collide.
C9_Collapse ==
    (NoiseReturned /\ variant = SpliceJunctionName) =>
        \A b \in Blocks : \A r \in Rows :
            /\ ActiveCount(out.table, b, r) <= ActiveCount(data, b, r)
            /\ ActiveCount(data, b, r) >= 1 => ActiveCount(out.table, b, r) >= 1

\* a group with several active columns that collide on fewer
C9_Witness ==
    /\ NoiseReturned
    /\ variant = SpliceJunctionName
    /\ \E b \in Blocks : \E r \in Rows :
          /\ ActiveCount(data, b, r) >= 2
          /\ ActiveCount(out.table, b, r) < ActiveCount(data, b, r)

\* C5: per row of flip_labels: on tails the label is kept; on heads the new
\* label is one of the input's labels and differs from the row's; with p = 0
\* no label changes and with p = 1 every label changes.
C5_FlipPerRow ==
    FlipReturned =>
        /\ Len(out.labels) = Len(labels)
        /\ \A r \in DOMAIN labels :
              /\ ~out.coins[r] => out.labels[r] = labels[r]
              /\ out.coins[r] =>
                    (out.labels[r] \in LabelSet(labels) /\ out.labels[r] # labels[r])
              /\ out.p[1] = 0 => out.labels[r] = labels[r]
              /\ out.p[1] = out.p[2] => out.labels[r] # labels[r]

\* a call in which one row came up heads and another tails
C5_Witness ==
    /\ FlipReturned
    /\ \E r1, r2 \in DOMAIN labels : out.coins[r1] /\ ~out.coins[r2]

\* C8 as claimed: the output of flip_labels holds the same set of label values
\* as its input, and the assertion of compute_divergence on it never fails.
C8_LabelSetPreserved ==
    /\ FlipReturned => LabelSet(out.labels) = LabelSet(labels)
    /\ div.err # "AssertionError"

\* C6 as claimed: when the perturbed table lacks the label column,
\* compute_divergence fails with the ValueError of the label check.
C6_LabelMismatch ==
    (div.err # "not called" /\ ~div.pert_has_label) => div.err = "ValueError"

\* C7: a returned divergence is >= 0: every per-class value is the sentinel or
\* lies in [0, 1e7], and the pooled score is a non-negative sum over a positive
\* row count.
C7_KLNonNegative ==
    DivergenceReturned =>
        /\ div.num >= 0
        /\ div.den > 0
        /\ \A l \in DOMAIN div.kls :
              div.kls[l] = KLSentinel \/ (div.kls[l] >= 0 /\ div.kls[l] <= KLLimit)

\* a returned divergence whose raw values were a negative number and a
\* not-a-number or an infinity
C7_Witness ==
    /\ DivergenceReturned
    /\ \E l \in DOMAIN div.raws : div.raws[l].kind = "num" /\ div.raws[l].val < 0
    /\ \E l \in DOMAIN div.raws : div.raws[l].kind \in {"nan", "inf", "-inf"}

\* C10 as claimed: the absolute score of every model sums exactly n terms, one
\* for each of the iterations 1..n, and divides by n.
C10_MeanOverN ==
    rob.pc # "idle" =>
        \A k \in DOMAIN rob.absolute :
            /\ rob.absolute[k].terms = rob.absolute[k].divisor
            /\ rob.absolute[k].files = [x \in 1 .. rob.absolute[k].divisor |-> x]

====
